---- MODULE Spec2Model ----
(***************************************************************************)
(* Model of src/src/subtree.rs (geometryresearch/fast-eval):               *)
(*   multiply_pow2_monic_polys  - the monic-product FFT trick              *)
(*   Pow2ProductSubtree         - construct + the PolyProcessor methods    *)
(* over the prime field F_P.  A polynomial is the sequence of its          *)
(* coefficients, index i+1 = coefficient of x^i, as DensePolynomial's      *)
(* coeffs vector.  A call's outcome is a record [tag, val]: tag "Ok" with  *)
(* the returned value, "Err" with the Error variant, or "Panic".           *)
(***************************************************************************)
EXTENDS Integers, Sequences, FiniteSets, TLC

(***************************************************************************)
(* The field F: FftField.  The code is generic in F; the model instantiates *)
(* it with F_17, whose multiplicative group has order 16 = 2^4, so radix-2  *)
(* domains of size 1, 2, 4, 8, 16 exist.                                    *)
(***************************************************************************)
P == 17
TWO_ADICITY == 4
TWO_ADIC_ROOT_OF_UNITY == 3

\* ---- bounds of the model ------------------------------------------------
\* roots are drawn from -MaxAbsRoot..MaxAbsRoot (mod P)
MaxAbsRoot == 3
\* root sequences have at most MaxLen elements
MaxLen == 4
\* evaluation values and polynomial coefficients given to the tree's
\* methods are drawn from 0..MaxVal (and so are the roots under SpecFrame)
MaxVal == 1
\* operands of a direct multiply_pow2_monic_polys call have at most
\* MaxMulLen coefficients, drawn from -MaxAbsCoef..MaxAbsCoef (mod P)
MaxMulLen == 3
MaxAbsCoef == 2

Fp == 0 .. (P - 1)

\* the field elements -m .. m
SymVals(m) == {x \in Fp : x <= m \/ x >= P - m}

\* ---- field arithmetic (ark_ff) -------------------------------------------
FAdd(a, b) == (a + b) % P
FSub(a, b) == (a - b + P) % P
FNeg(a) == (P - a) % P
FMul(a, b) == (a * b) % P

RECURSIVE FPow(_, _)
FPow(a, e) == IF e = 0 THEN 1 ELSE FMul(a, FPow(a, e - 1))

\* Field::inverse().unwrap() of a non-zero element
FInv(a) == CHOOSE x \in Fp : FMul(a, x) = 1

\* ark_ff::batch_inversion: every non-zero element is replaced by its
\* inverse; zero elements are skipped and stay zero.
batch_inversion(v) == [i \in 1 .. Len(v) |-> IF v[i] = 0 THEN 0 ELSE FInv(v[i])]

\* ---- dense polynomials (ark_poly::univariate::DensePolynomial) -----------
RECURSIVE truncate_leading_zeros(_)
truncate_leading_zeros(c) ==
    IF Len(c) = 0 THEN c
    ELSE IF c[Len(c)] = 0 THEN truncate_leading_zeros(SubSeq(c, 1, Len(c) - 1))
    ELSE c

\* DensePolynomial::from_coefficients_slice: trailing zero coefficients are
\* popped, so the zero polynomial is the empty vector.
from_coefficients_slice(c) == truncate_leading_zeros(c)

\* Polynomial::degree: 0 for the zero polynomial, else len - 1
degree(p) == IF Len(p) = 0 THEN 0 ELSE Len(p) - 1

\* Polynomial::evaluate (Horner)
RECURSIVE horner(_, _, _)
horner(p, x, i) == IF i > Len(p) THEN 0 ELSE FAdd(p[i], FMul(x, horner(p, x, i + 1)))
evaluate(p, x) == horner(p, x, 1)

\* coefficient of x^i (0-based), zero beyond the vector
Coef(p, i) == IF 0 <= i /\ i + 1 <= Len(p) THEN p[i + 1] ELSE 0

RECURSIVE FSum(_, _, _)
FSum(f, lo, hi) == IF lo > hi THEN 0 ELSE FAdd(f[lo], FSum(f, lo + 1, hi))

\* &a * &b of DensePolynomial: the exact product, trimmed; zero if either is
Convolve(a, b) ==
    [k \in 1 .. (Len(a) + Len(b) - 1) |->
        FSum([i \in 1 .. Len(a) |-> FMul(a[i], Coef(b, k - i))], 1, Len(a))]
PolyMul(a, b) ==
    IF Len(a) = 0 \/ Len(b) = 0 THEN <<>>
    ELSE from_coefficients_slice(Convolve(a, b))

Max(a, b) == IF a >= b THEN a ELSE b

\* &a + &b of DensePolynomial, trimmed
PolyAdd(a, b) ==
    from_coefficients_slice([k \in 1 .. Max(Len(a), Len(b)) |->
        FAdd(Coef(a, k - 1), Coef(b, k - 1))])

\* ---- evaluation domains (ark_poly::GeneralEvaluationDomain) --------------
RECURSIVE next_power_of_two_from(_, _)
next_power_of_two_from(n, m) == IF m >= n THEN m ELSE next_power_of_two_from(n, 2 * m)
next_power_of_two(n) == next_power_of_two_from(n, 1)

RECURSIVE trailing_zeros(_)
trailing_zeros(n) == IF n % 2 = 1 THEN 0 ELSE 1 + trailing_zeros(n \div 2)

\* GeneralEvaluationDomain::new(num_coeffs): the radix-2 domain of size
\* num_coeffs.next_power_of_two(), None if the field has no subgroup of it.
DomainNew(num_coeffs) ==
    LET size == next_power_of_two(num_coeffs)
        log_size == trailing_zeros(size)
    IN  IF log_size > TWO_ADICITY
        THEN [some |-> FALSE, size |-> 0, group_gen |-> 0]
        ELSE [some |-> TRUE, size |-> size,
              group_gen |-> FPow(TWO_ADIC_ROOT_OF_UNITY, (2 ^ TWO_ADICITY) \div size)]

\* domain.fft(p): p padded with zeros to the domain size, evaluated at
\* group_gen^0 .. group_gen^(size-1)
Fft(domain, p) ==
    [i \in 1 .. domain.size |-> evaluate(p, FPow(domain.group_gen, i - 1))]

\* domain.ifft(evals): the coefficients c_j = size^-1 * sum_i evals_i * gen^(-i*j)
Ifft(domain, evals) ==
    LET gen_inv == FInv(domain.group_gen)
        size_inv == FInv(domain.size % P)
    IN  [j \in 1 .. domain.size |->
            FMul(size_inv,
                 FSum([i \in 1 .. domain.size |->
                        FMul(evals[i], FPow(gen_inv, (i - 1) * (j - 1)))],
                      1, domain.size))]

\* ---- outcomes -------------------------------------------------------------
Ok(v) == [tag |-> "Ok", val |-> v]
Err(e) == [tag |-> "Err", val |-> e]
Panic == [tag |-> "Panic", val |-> <<>>]

\* the outcome r is the value v returned; r aborted
Returned(r, v) == r.tag = "Ok" /\ r.val = v
Aborted(r) == r.tag = "Panic"

\* ---- usize bit arithmetic --------------------------------------------------
RECURSIVE BitAnd(_, _)
BitAnd(a, b) ==
    IF a = 0 \/ b = 0 THEN 0
    ELSE 2 * BitAnd(a \div 2, b \div 2) + (IF a % 2 = 1 /\ b % 2 = 1 THEN 1 ELSE 0)

\* x & (x - 1) on usize where the subtraction did not panic.  For x = 0 it
\* wrapped to usize::MAX (all bits set), and 0 & usize::MAX = 0.
AndWithPred(x) == IF x = 0 THEN 0 ELSE BitAnd(x, x - 1)

\* ---- multiply_pow2_monic_polys --------------------------------------------
\* the coefficient repair of lines 54-56 on the inverse transform's output
RepairTop(coeffs) ==
    LET product_poly == from_coefficients_slice(coeffs)
    IN  IF Len(product_poly) = 0 THEN Panic        \* product_poly[0]: index out of bounds
        ELSE Ok(Append([i \in 1 .. Len(product_poly) |->
                            IF i = 1 THEN FSub(product_poly[1], 1) ELSE product_poly[i]],
                       1))

multiply_pow2_monic_polys(a, b, checks) ==
    LET deg_a == degree(a)
        deg_b == degree(b)
        monic_deg == deg_a
    IN  IF deg_a # deg_b THEN Panic
        \* monic_deg - 1 on usize: with overflow checks (debug profile) 0 - 1
        \* panics, without them (release profile) it wraps
        ELSE IF checks /\ monic_deg = 0 THEN Panic
        ELSE IF AndWithPred(monic_deg) # 0 THEN Panic
        ELSE IF Len(a) = 0 \/ Len(b) = 0 THEN Panic      \* last().unwrap() on None
        ELSE IF a[Len(a)] # 1 THEN Panic
        ELSE IF b[Len(b)] # 1 THEN Panic
        ELSE LET domain == DomainNew(2 * monic_deg)
             IN  IF ~domain.some THEN Panic             \* new(..).unwrap() on None
                 ELSE LET a_evals == Fft(domain, a)
                          b_evals == Fft(domain, b)
                          product_evals ==
                              [i \in 1 .. domain.size |-> FMul(a_evals[i], b_evals[i])]
                      IN  RepairTop(Ifft(domain, product_evals))

\* ---- FastEval (crate::fast_eval) -------------------------------------------
\* remainder of f modulo the monic divisor g (polynomial long division)
RECURSIVE PolyRem(_, _)
PolyRem(f, g) ==
    IF Len(f) < Len(g) THEN f
    ELSE LET shift == Len(f) - Len(g)
             q == FMul(f[Len(f)], FInv(g[Len(g)]))
             r == [i \in 1 .. Len(f) |->
                    IF i > shift THEN FSub(f[i], FMul(q, g[i - shift])) ELSE f[i]]
         IN  PolyRem(from_coefficients_slice(r), g)

\* layers[layer][index] with the code's 0-based indices
Node(layers, layer, index) == layers[layer + 1][index + 1]

\* Up-the-tree combination over the leaf range lo..hi below node (layer, index):
\* a leaf gives the constant evals[lo]; an internal node gives
\* left_accum * right_sibling_product + right_accum * left_sibling_product.
RECURSIVE multiply_up_the_tree(_, _, _, _, _, _)
multiply_up_the_tree(layers, lo, hi, layer, index, evals) ==
    IF lo = hi THEN from_coefficients_slice(<<evals[lo + 1]>>)
    ELSE LET mid == (lo + hi) \div 2
             lhs_poly == multiply_up_the_tree(layers, lo, mid, layer - 1, 2 * index, evals)
             rhs_poly == multiply_up_the_tree(layers, mid + 1, hi, layer - 1, 2 * index + 1, evals)
         IN  PolyAdd(PolyMul(lhs_poly, Node(layers, layer - 1, 2 * index + 1)),
                     PolyMul(rhs_poly, Node(layers, layer - 1, 2 * index)))

\* Down-the-tree reduction from node (layer, index): the residue is reduced
\* modulo each child's product polynomial; at a leaf it is a constant.
RECURSIVE divide_down_the_tree(_, _, _, _, _)
divide_down_the_tree(layers, n, layer, index, f) ==
    IF layer = 0 THEN <<Coef(f, 0)>>
    ELSE divide_down_the_tree(layers, n, layer - 1, 2 * index,
                              PolyRem(f, Node(layers, layer - 1, 2 * index)))
         \o
         divide_down_the_tree(layers, n, layer - 1, 2 * index + 1,
                              PolyRem(f, Node(layers, layer - 1, 2 * index + 1)))

\* ---- Pow2ProductSubtree::construct ------------------------------------------
\* layers[0]: one monic linear factor x - root per root
root_monomial(root) == from_coefficients_slice(<<FNeg(root), 1>>)

\* layers i..k on top of the layers built so far (lines 88-97); Panic as soon
\* as one multiply_pow2_monic_polys call panics
RECURSIVE BuildLayers(_, _, _, _)
BuildLayers(layers, i, k, checks) ==
    IF i > k THEN Ok(layers)
    ELSE LET nodes_on_layer == Len(layers[1]) \div (2 ^ i)
             products == [j \in 1 .. nodes_on_layer |->
                            multiply_pow2_monic_polys(Node(layers, i - 1, 2 * (j - 1)),
                                                      Node(layers, i - 1, 2 * (j - 1) + 1),
                                                      checks)]
         IN  IF \E j \in 1 .. nodes_on_layer : products[j].tag = "Panic" THEN Panic
             ELSE BuildLayers(Append(layers, [j \in 1 .. nodes_on_layer |-> products[j].val]),
                              i + 1, k, checks)

\* the barycentric weights of lines 99-104
ComputeRi(layers, n, k) ==
    LET evals == [i \in 1 .. n |-> 1]
        vanishing_derivative == multiply_up_the_tree(layers, 0, Len(evals) - 1, k, 0, evals)
    IN  batch_inversion(divide_down_the_tree(layers, n, k, 0, vanishing_derivative))

construct(rs, checks) ==
    LET n == Len(rs)
    IN  IF n = 0 THEN Err("EmptyRoots")
        ELSE IF AndWithPred(n) # 0 THEN Err("NotPow2")
        ELSE LET k == trailing_zeros(n)
                 layer0 == [i \in 1 .. n |-> root_monomial(rs[i])]
                 built == BuildLayers(<<layer0>>, 1, k, checks)
             IN  IF built.tag = "Panic" THEN Panic
                 ELSE Ok([layers |-> built.val, ri |-> ComputeRi(built.val, n, k)])

\* ---- impl PolyProcessor for Pow2ProductSubtree ------------------------------
\* Each method gives [self |-> the tree after the call, ret |-> its outcome].
get_vanishing(self) ==
    LET k == Len(self.layers) - 1
    IN  [self |-> self, ret |-> Ok(Node(self.layers, k, 0))]

get_ri(self) == [self |-> self, ret |-> Ok(self.ri)]

evaluate_over_domain(self, f) ==
    LET n == Len(self.layers[1])
        k == Len(self.layers) - 1
    IN  IF ~(degree(f) < n) THEN [self |-> self, ret |-> Panic]
        ELSE [self |-> self, ret |-> Ok(divide_down_the_tree(self.layers, n, k, 0, f))]

\* interpolate scaling the stored weights in place instead of a copy
interpolate_scaling_in_place(self, evals) ==
    IF Len(evals) # Len(self.ri) THEN [self |-> self, ret |-> Panic]
    ELSE LET k == Len(self.layers) - 1
             scaled == [i \in 1 .. Len(evals) |-> FMul(evals[i], self.ri[i])]
         IN  [self |-> [layers |-> self.layers, ri |-> scaled],
              ret |-> Ok(multiply_up_the_tree(self.layers, 0, Len(scaled) - 1, k, 0, scaled))]

interpolate(self, evals) ==
    IF Len(evals) # Len(self.ri) THEN [self |-> self, ret |-> Panic]
    ELSE LET k == Len(self.layers) - 1
             scaled == [i \in 1 .. Len(evals) |-> FMul(evals[i], self.ri[i])]
         IN  [self |-> self,
              ret |-> Ok(multiply_up_the_tree(self.layers, 0, Len(scaled) - 1, k, 0, scaled))]

batch_evaluate_lagrange_basis(self, point) ==
    LET monomials_evals ==
            batch_inversion([i \in 1 .. Len(self.layers[1]) |->
                                evaluate(self.layers[1][i], point)])
        k == Len(self.layers) - 1
        vh_eval == evaluate(Node(self.layers, k, 0), point)
    IN  [self |-> self,
         ret |-> Ok([i \in 1 .. Len(self.ri) |->
                        FMul(FMul(self.ri[i], monomials_evals[i]), vh_eval)])]

\* ---- state ------------------------------------------------------------------
\* overflow_checks: whether the build panics on integer overflow (debug
\*                  profile) or wraps (release profile)
\* roots:           the root sequence given to construct
\* subtree:         the outcome of construct; tag "None" before the call
\* call, ret:       the call last made and its outcome, until the caller
\*                  drops it (Return)
VARIABLES overflow_checks, roots, subtree, call, ret

vars == <<overflow_checks, roots, subtree, call, ret>>

RECURSIVE SeqsUpTo(_, _)
SeqsUpTo(S, n) ==
    IF n = 0 THEN {<<>>}
    ELSE LET prev == SeqsUpTo(S, n - 1)
         IN  prev \cup {Append(s, x) : s \in {t \in prev : Len(t) = n - 1}, x \in S}

\* polynomials as DensePolynomial can hold them: no trailing zero
Polys(S, maxLen) == {p \in SeqsUpTo(S, maxLen) : Len(p) = 0 \/ p[Len(p)] # 0}

NoCall == [op |-> "none", args |-> <<>>]
NoRet == [tag |-> "None", val |-> <<>>]

Return ==
    /\ call.op # "none"
    /\ call' = NoCall
    /\ ret' = NoRet
    /\ UNCHANGED <<overflow_checks, roots, subtree>>

\* ---- direct calls of multiply_pow2_monic_polys ------------------------------
InitMul ==
    /\ overflow_checks \in BOOLEAN
    /\ roots = <<>>
    /\ subtree = NoRet
    /\ call = NoCall
    /\ ret = NoRet

MultiplyPow2MonicPolys ==
    /\ call.op = "none"
    /\ \E a \in Polys(SymVals(MaxAbsCoef), MaxMulLen),
          b \in Polys(SymVals(MaxAbsCoef), MaxMulLen) :
            /\ call' = [op |-> "multiply_pow2_monic_polys", args |-> <<a, b>>]
            /\ ret' = multiply_pow2_monic_polys(a, b, overflow_checks)
    /\ UNCHANGED <<overflow_checks, roots, subtree>>

NextMul == MultiplyPow2MonicPolys \/ Return

SpecMul == InitMul /\ [][NextMul]_vars

\* ---- a tree's life: construct, then any sequence of method calls ------------
Init ==
    /\ overflow_checks \in BOOLEAN
    /\ roots \in SeqsUpTo(SymVals(MaxAbsRoot), MaxLen)
    /\ subtree = NoRet
    /\ call = NoCall
    /\ ret = NoRet

Construct ==
    /\ call.op = "none"
    /\ subtree.tag = "None"
    /\ call' = [op |-> "construct", args |-> <<roots>>]
    /\ subtree' = construct(roots, overflow_checks)
    /\ ret' = subtree'
    /\ UNCHANGED <<overflow_checks, roots>>

\* a method call on the constructed tree
Method(op, args, r) ==
    /\ call' = [op |-> op, args |-> args]
    /\ subtree' = Ok(r.self)
    /\ ret' = r.ret
    /\ UNCHANGED <<overflow_checks, roots>>

Ready == call.op = "none" /\ subtree.tag = "Ok"

\* the tree's size n
N == Len(subtree.val.ri)

GetVanishing == Ready /\ Method("get_vanishing", <<>>, get_vanishing(subtree.val))

GetRi == Ready /\ Method("get_ri", <<>>, get_ri(subtree.val))

EvaluateOverDomain ==
    /\ Ready
    /\ \E f \in Polys(0 .. MaxVal, N + 1) :
        Method("evaluate_over_domain", <<f>>, evaluate_over_domain(subtree.val, f))

Interpolate ==
    /\ Ready
    /\ \E evals \in SeqsUpTo(0 .. MaxVal, N + 1) :
        Method("interpolate", <<evals>>, interpolate(subtree.val, evals))

BatchEvaluateLagrangeBasis ==
    /\ Ready
    /\ \E point \in Fp :
        Method("batch_evaluate_lagrange_basis", <<point>>,
               batch_evaluate_lagrange_basis(subtree.val, point))

Next ==
    \/ Construct
    \/ GetVanishing
    \/ GetRi
    \/ EvaluateOverDomain
    \/ Interpolate
    \/ BatchEvaluateLagrangeBasis
    \/ Return

Spec == Init /\ [][Next]_vars

\* the frame property's specification: the same life of a tree, over root
\* sequences drawn from 0..MaxVal
InitFrame ==
    /\ overflow_checks \in BOOLEAN
    /\ roots \in SeqsUpTo(0 .. MaxVal, MaxLen)
    /\ subtree = NoRet
    /\ call = NoCall
    /\ ret = NoRet

SpecFrame == InitFrame /\ [][Next]_vars

\* ---- reference computations the claims compare with -------------------------
IsPow2(n) == \E k \in 0 .. n : n = 2 ^ k

Distinct(rs) == \A i, j \in 1 .. Len(rs) : i # j => rs[i] # rs[j]

\* prod_{i} (x - roots[i]) by repeated schoolbook multiplication
RECURSIVE explicit_vanishing(_, _)
explicit_vanishing(rs, m) ==
    IF m = 0 THEN <<1>>
    ELSE PolyMul(explicit_vanishing(rs, m - 1), <<FNeg(rs[m]), 1>>)

RECURSIVE FProd(_, _, _)
FProd(f, lo, hi) == IF lo > hi THEN 1 ELSE FMul(f[lo], FProd(f, lo + 1, hi))

\* L_i(a) = prod_{j # i} (a - root_j) / (root_i - root_j), for distinct roots
lagrange_value(rs, i, a) ==
    FProd([j \in 1 .. Len(rs) |->
            IF j = i THEN 1
            ELSE FMul(FSub(a, rs[j]), FInv(FSub(rs[i], rs[j])))],
          1, Len(rs))

\* the basis polynomial L_i(x), for distinct roots
RECURSIVE lagrange_poly(_, _, _)
lagrange_poly(rs, i, m) ==
    IF m = 0 THEN <<1>>
    ELSE IF m = i THEN lagrange_poly(rs, i, m - 1)
    ELSE LET xi_minus_xj_inv == FInv(FSub(rs[i], rs[m]))
         IN  PolyMul(lagrange_poly(rs, i, m - 1),
                     from_coefficients_slice(<<FMul(FNeg(rs[m]), xi_minus_xj_inv),
                                               xi_minus_xj_inv>>))

PolyScale(c, p) == from_coefficients_slice([i \in 1 .. Len(p) |-> FMul(c, p[i])])

\* sum_i evals[i] * L_i(x)
RECURSIVE lagrange_combination(_, _, _)
lagrange_combination(rs, evals, m) ==
    IF m = 0 THEN <<>>
    ELSE PolyAdd(lagrange_combination(rs, evals, m - 1),
                 PolyScale(evals[m], lagrange_poly(rs, m, Len(rs))))

\* the formal derivative of p
derivative(p) ==
    IF Len(p) <= 1 THEN <<>>
    ELSE from_coefficients_slice([i \in 1 .. Len(p) - 1 |-> FMul(i % P, p[i + 1])])

evaluations(f, rs) == [i \in 1 .. Len(rs) |-> evaluate(f, rs[i])]

IsMonic(p) == Len(p) > 0 /\ p[Len(p)] = 1

\* ---- the claims ---------------------------------------------------------------

\* C1: for pairwise distinct roots (n a power of two), after a successful
\* construct, get_vanishing() returns exactly prod_i (x - roots[i]) as given
\* by repeated schoolbook multiplication.
C1_VanishingIsExplicitProduct ==
    (call.op = "get_vanishing" /\ Distinct(roots))
        => Returned(ret, explicit_vanishing(roots, Len(roots)))

\* C2: for monic a, b of the same degree d, d a power of two and d >= 1,
\* multiply_pow2_monic_polys(a, b) returns the schoolbook product a*b.
C2_MonicProductIsSchoolbook ==
    (/\ call.op = "multiply_pow2_monic_polys"
     /\ IsMonic(call.args[1]) /\ IsMonic(call.args[2])
     /\ Len(call.args[1]) = Len(call.args[2])
     /\ Len(call.args[1]) >= 2
     /\ IsPow2(Len(call.args[1]) - 1))
        => Returned(ret, PolyMul(call.args[1], call.args[2]))

\* C3: construct returns Err(EmptyRoots) for n = 0, Err(NotPow2) for n > 0
\* not a power of two, and Ok(tree), without aborting, for every root
\* sequence whose length is a power of two.
C3_ConstructOutcome ==
    call.op = "construct"
        => LET n == Len(roots)
           IN  /\ n = 0 => (ret.tag = "Err" /\ ret.val = "EmptyRoots")
               /\ (n > 0 /\ ~IsPow2(n)) => (ret.tag = "Err" /\ ret.val = "NotPow2")
               /\ IsPow2(n) => ret.tag = "Ok"

\* C4: for pairwise distinct roots and any field element a (a root included),
\* batch_evaluate_lagrange_basis(a) returns the n values L_i(a), in input order.
C4_LagrangeBasisValues ==
    (call.op = "batch_evaluate_lagrange_basis" /\ Distinct(roots))
        => Returned(ret, [i \in 1 .. Len(roots) |-> lagrange_value(roots, i, call.args[1])])

\* C5: for pairwise distinct roots and evals of length n, interpolate(evals)
\* returns sum_i evals[i] * L_i(x), the polynomial of degree < n through the
\* points, and evaluating it over the domain gives evals back.
C5_InterpolateIsLagrangeCombination ==
    (call.op = "interpolate" /\ Distinct(roots) /\ Len(call.args[1]) = Len(roots))
        => /\ Returned(ret, lagrange_combination(roots, call.args[1], Len(roots)))
           /\ Returned(evaluate_over_domain(subtree.val, ret.val).ret, call.args[1])

\* C6: for pairwise distinct roots and f of degree < n (zero included),
\* evaluate_over_domain(f) returns [f(roots[0]), .., f(roots[n-1])].
C6_EvaluateInRootOrder ==
    (call.op = "evaluate_over_domain" /\ Distinct(roots)
     /\ degree(call.args[1]) < Len(roots))
        => Returned(ret, evaluations(call.args[1], roots))

\* C7: round trip: for pairwise distinct roots and f of degree < n,
\* interpolate(evaluate_over_domain(f)) is f, coefficient for coefficient.
C7_RoundTrip ==
    (call.op = "evaluate_over_domain" /\ Distinct(roots)
     /\ degree(call.args[1]) < Len(roots))
        => /\ ret.tag = "Ok"
           /\ Returned(interpolate(subtree.val, ret.val).ret, call.args[1])

\* C8: for pairwise distinct roots, get_ri() returns, in input order, the
\* values 1 / Z'(roots[i]) with Z' the formal derivative of
\* Z(x) = prod_j (x - roots[j]).
C8_RiIsInverseDerivative ==
    (call.op = "get_ri" /\ Distinct(roots))
        => Returned(ret, [i \in 1 .. Len(roots) |->
                        FInv(evaluate(derivative(explicit_vanishing(roots, Len(roots))),
                                      roots[i]))])

\* C9: every caller-contract violation aborts the call: multiply_pow2_monic_polys
\* when the degrees differ, when the common degree is not a power of two
\* (degree 0 included) or when a or b is not monic; evaluate_over_domain when
\* degree(f) >= n; interpolate when len(evals) # n.
C9_ContractViolationsAbort ==
    /\ (/\ call.op = "multiply_pow2_monic_polys"
        /\ \/ degree(call.args[1]) # degree(call.args[2])
           \/ ~(degree(call.args[1]) >= 1 /\ IsPow2(degree(call.args[1])))
           \/ ~IsMonic(call.args[1])
           \/ ~IsMonic(call.args[2]))
            => Aborted(ret)
    /\ (call.op = "evaluate_over_domain" /\ degree(call.args[1]) >= N)
            => Aborted(ret)
    /\ (call.op = "interpolate" /\ Len(call.args[1]) # N)
            => Aborted(ret)

\* C10: a constructed tree is immutable: no call of get_vanishing, get_ri,
\* evaluate_over_domain, interpolate or batch_evaluate_lagrange_basis, aborted
\* calls included, changes its layers or ri.
C10_TreeImmutable ==
    [][subtree.tag = "Ok" => (subtree'.tag = "Ok" /\ subtree'.val = subtree.val)]_vars

\* a completed interpolate call has acted on a constructed tree of two or
\* more roots, with scaled evaluations that differ from the stored weights
C10_Witness ==
    /\ subtree.tag = "Ok"
    /\ Len(roots) >= 2
    /\ call.op = "interpolate"
    /\ ret.tag = "Ok"
    /\ \E i \in 1 .. N : FMul(call.args[1][i], subtree.val.ri[i]) # subtree.val.ri[i]

\* ---- where the failures come from ---------------------------------------------
\* The data model's invariant: node j of layer l is the product of the linear
\* factors of its 2^l leaves.
LayersSound(rs, layers) ==
    \A l \in 0 .. Len(layers) - 1 :
        \A j \in 0 .. Len(layers[l + 1]) - 1 :
            Node(layers, l, j) =
                explicit_vanishing(SubSeq(rs, j * (2 ^ l) + 1, (j + 1) * (2 ^ l)), 2 ^ l)

Sound == subtree.tag = "Ok" /\ LayersSound(roots, subtree.val.layers)

\* multiply_pow2_monic_polys is right whenever the product's coefficient of
\* x^(2d-1), a[d-1] + b[d-1], is not zero
MonicProductUnlessCancelling ==
    (/\ call.op = "multiply_pow2_monic_polys"
     /\ IsMonic(call.args[1]) /\ IsMonic(call.args[2])
     /\ Len(call.args[1]) = Len(call.args[2])
     /\ Len(call.args[1]) >= 2
     /\ IsPow2(Len(call.args[1]) - 1)
     /\ FAdd(call.args[1][Len(call.args[1]) - 1], call.args[2][Len(call.args[2]) - 1]) # 0)
        => Returned(ret, PolyMul(call.args[1], call.args[2]))

\* on a tree whose layers are the true products, the methods are right
\* (batch_evaluate_lagrange_basis: at a point that is not a root)
MethodsRightOnSoundTree ==
    (Sound /\ Distinct(roots)) =>
        /\ C5_InterpolateIsLagrangeCombination
        /\ C6_EvaluateInRootOrder
        /\ C7_RoundTrip
        /\ C8_RiIsInverseDerivative
        /\ (/\ call.op = "batch_evaluate_lagrange_basis"
            /\ \A i \in 1 .. Len(roots) : call.args[1] # roots[i])
                => C4_LagrangeBasisValues

\* contract violations abort in a build with overflow checks
AbortsWithOverflowChecks == overflow_checks => C9_ContractViolationsAbort

====
